---- MODULE Spec2Model ----
(***************************************************************************)
(* Real-time notification layer of the focusme backend:                    *)
(*   - ConnectionManager (app/services/websocket_service.py): the registry *)
(*     user id -> set of WebSocket handles, with its delivery primitives;  *)
(*   - NotificationService: typed payload builders over the registry;      *)
(*   - heartbeat_task and websocket_endpoint (app/routers/                 *)
(*     websocket_router.py): the per-session protocol.                     *)
(*                                                                         *)
(* The specifications share the variables:                                 *)
(*   SpecRegistry, SpecDelivery, SpecNotify, SpecIntrospect, SpecAddress   *)
(*                 calls of the registry / dispatcher API, each run to its *)
(*                 return, on arbitrary handles and user ids, while        *)
(*                 clients may drop their connection between two calls;    *)
(*   SpecSession   the endpoint coroutine of every handle, its heartbeat   *)
(*                 task and the client, interleaved at the await points;   *)
(*   SpecLoop      send_to_user and broadcast taken send by send, with     *)
(*                 connects, disconnects and clients that stop reading in  *)
(*                 between (SpecLoopFair: the event loop resumes a         *)
(*                 coroutine whose send has returned);                     *)
(*   SpecPush      the sessions with such deliveries beside them.          *)
(***************************************************************************)
EXTENDS Integers, FiniteSets, Sequences, TLC

\* ----------------------------------------------------------------- bounds
NumHandles == 3
\* handles 1..NumSessions are served by a websocket_endpoint call in SpecSession
NumSessions == 2

\* handles 1..NumIntrospectHandles are connected in SpecIntrospect and SpecAddress
NumIntrospectHandles == 2

\* handles 1..NumLoopHandles are connected in SpecLoop
NumLoopHandles == 2
\* handles 1..NumPushSessions are served by a websocket_endpoint call in SpecPush
NumPushSessions == 1

Handles == 1..NumHandles
IntrospectHandles == 1..NumIntrospectHandles
LoopHandles == 1..NumLoopHandles
PushSessions == 1..NumPushSessions
Sessions == 1..NumSessions
\* user ids: 0 (a falsy int), and the ids of the spec's example scenario
Users == {0, 7, 9}
\* datetime.utcnow(): the value is only logged and copied into frames
utcnow == "utcnow"
\* application names handed to notify_app_blocked
AppNames == {"game", "chat"}

\* Optional[int]: None or an int
None == <<>>
Some(x) == <<x>>
Option(S) == {None} \cup {Some(x) : x \in S}

VARIABLES
    active_connections,  \* Dict[int, Set[WebSocket]]: DOMAIN = the keys
    connection_times,    \* Dict[WebSocket, datetime]
    application_state,   \* per handle: WebSocket.application_state
    channel_up,          \* per handle: the connection to the client is up (FALSE once
                         \* the client went away or the server tore it down)
    pc,                  \* per handle: position of its websocket_endpoint call
    user,                \* per handle: the local `user` of websocket_endpoint
    heartbeat,           \* per handle: state of the asyncio task `heartbeat`
    token,               \* per handle: the token its client presented (None: not yet)
    opened,              \* history: the <<handle, user id>> pairs connected by a
                         \* connect and not since named by a disconnect
    first_frame,         \* history, per handle: type of the first frame sent on it
    unsubscribed,        \* history, kept for the sessions that deliveries run beside
                         \* (PushSessions): the handles whose last acknowledged
                         \* subscription action was an unsubscribe; the endpoint
                         \* itself stores nothing of it
    unresponsive,        \* handles whose client has stopped reading: a send on one
                         \* of them does not complete
    loop,                \* the send_to_user / broadcast call in progress, suspended
                         \* in the send on one handle of its snapshot
    last                 \* the call or step just executed, with its outcome

vars == <<active_connections, connection_times, application_state, channel_up,
          pc, user, heartbeat, token, opened, first_frame, unsubscribed, unresponsive,
          loop, last>>

\* ------------------------------------------------------------ Python dicts
DictSet(d, k, v) == [x \in (DOMAIN d) \cup {k} |-> IF x = k THEN v ELSE d[x]]
DictDel(d, k) == [x \in (DOMAIN d) \ {k} |-> d[x]]
EmptyDict == [x \in {} |-> {}]

\* Python truthiness of an Optional[int]: None and 0 are falsy
Truthy(opt) == opt # None /\ opt[1] # 0

\* ------------------------------------------------------------- transport
\* websocket.accept(): legal once, on a channel still CONNECTING whose client is there
AcceptOk(h) == application_state[h] = "CONNECTING" /\ channel_up[h]
\* websocket.send_json(): raises unless the channel is accepted, not closed, client there
SendJsonRaises(h) == ~(application_state[h] = "CONNECTED" /\ channel_up[h])

\* --------------------------------------------------------------- frames
NoFrame == [type |-> "none"]
ConnectionFrame(t) ==
    [type |-> "connection", message |-> "Connexion etablie avec succes", timestamp |-> t]
HeartbeatFrame(t) == [type |-> "heartbeat", timestamp |-> t]
PongFrame(timestamp) == [type |-> "pong", timestamp |-> timestamp]
SubscribedFrame(events) ==
    [type |-> "subscribed", events |-> events, message |-> "Abonnement reussi"]
UnsubscribedFrame(events) ==
    [type |-> "unsubscribed", events |-> events, message |-> "Desabonnement reussi"]
StatsFrame(stats) == [type |-> "stats", data |-> stats]
UnknownActionFrame(action) ==
    [type |-> "error", message |-> <<"Action inconnue: ", action>>]
ConnectionErrorFrame ==
    [type |-> "error", message |-> "Erreur d'authentification ou de connexion"]
\* a message dict a caller hands to send_to_user / broadcast
TestMessage == [type |-> "message"]
\* notify_user, lines 216-223; a dict is the set of its <<key, value>> items,
\* and `data or {}` maps None and the empty dict to the empty dict
NotificationFrame(notification_type, title, message, data, t) ==
    [type |-> "notification", notification_type |-> notification_type, title |-> title,
     message |-> message, data |-> IF data = {} THEN {} ELSE data, timestamp |-> t]

\* ------------------------------------------------------ outcome records
NoRecv == [h \in Handles |-> 0]
\* the first frame of each handle, after a step that delivered recv[h] frames of
\* the given type on h
FirstFrames(ff, recv, type) ==
    [h \in Handles |-> IF ff[h] = "none" /\ recv[h] > 0 THEN type ELSE ff[h]]

\* the subscribe / unsubscribe acknowledgements among the frames sent: the
\* unsubscribed handles after a step that sent a frame of this type on the
\* handles with recv > 0
Acknowledged(unsub, recv, type) ==
    IF type = "unsubscribed" THEN unsub \cup {h \in PushSessions : recv[h] > 0}
    ELSE IF type = "subscribed" THEN unsub \ {h \in PushSessions : recv[h] > 0}
    ELSE unsub

RetNone == [kind |-> "none", n |-> 0, b |-> FALSE, s |-> {}]
RetInt(k) == [kind |-> "int", n |-> k, b |-> FALSE, s |-> {}]
RetBool(v) == [kind |-> "bool", n |-> 0, b |-> v, s |-> {}]
RetSet(S) == [kind |-> "set", n |-> 0, b |-> FALSE, s |-> S]
\* the dict get_websocket_stats returns; list(...) of a set has no defined order
RetHttpStats(st, ids) ==
    [kind |-> "http_stats", n |-> st.total_connections, b |-> TRUE, s |-> ids,
     websocket_enabled |-> TRUE, active_users |-> st.total_users,
     active_connections |-> st.total_connections, connected_user_ids |-> ids]
RetStats(st) == [kind |-> "stats", n |-> st.total_connections, b |-> FALSE, s |-> {},
                 total_users |-> st.total_users, total_connections |-> st.total_connections]
\* op: the call; arg: its user id argument, where the outcome depends on it;
\* ret: the value returned; raised: an exception reached the caller;
\* recv[h]: frames the call delivered on h; frame: the frame it sent
Outcome(op, arg, ret, raised, recv, frame) ==
    [op |-> op, arg |-> arg, ret |-> ret, raised |-> raised,
     recv |-> recv, frame |-> frame]

\* ------------------------------------------------- ConnectionManager
RECURSIVE SumLen(_, _)
SumLen(d, keys) ==
    IF keys = {} THEN 0
    ELSE LET k == CHOOSE x \in keys : TRUE
         IN  Cardinality(d[k]) + SumLen(d, keys \ {k})

\* as get_stats, with total_connections counting the users
get_stats_CountsUsers(ac) ==
    [total_users |-> Cardinality(DOMAIN ac),
     total_connections |-> Cardinality(DOMAIN ac)]

get_stats(ac) ==
    [total_users |-> Cardinality(DOMAIN ac),
     total_connections |-> SumLen(ac, DOMAIN ac)]

get_connected_users(ac) == DOMAIN ac

\* as GetConnectedUsersReturns, handing out the registry's own key collection
GetConnectedUsersReturns_Registry == "registry"

\* line 171, `set(...)`: the object returned is a new set, which shares nothing with
\* the dict ("registry" would be the dict's own key collection)
GetConnectedUsersReturns == "new set"

is_user_connected(ac, u) == u \in DOMAIN ac /\ Cardinality(ac[u]) > 0

\* as RegisterConnection, with the user's set assigned instead of added to
RegisterConnection_Overwrite(ac, h, u) == DictSet(ac, u, {h})

\* connect, lines 39-44: the bookkeeping after a successful accept()
RegisterConnection(ac, h, u) ==
    LET d == IF u \notin DOMAIN ac THEN DictSet(ac, u, {}) ELSE ac
    IN  DictSet(d, u, d[u] \cup {h})

\* as DisconnectConnections, without the pruning of an emptied entry
DisconnectRemoveOnly(ac, h, u) ==
    IF u \in DOMAIN ac THEN DictSet(ac, u, ac[u] \ {h}) ELSE ac

\* as DisconnectConnections, with the `del` outside the emptiness test
DisconnectDropsUser(ac, h, u) ==
    IF u \in DOMAIN ac THEN DictDel(ac, u) ELSE ac

\* disconnect, lines 67-72
DisconnectConnections(ac, h, u) ==
    IF u \in DOMAIN ac
    THEN LET d == DictSet(ac, u, ac[u] \ {h})
         IN  IF d[u] = {} THEN DictDel(d, u) ELSE d
    ELSE ac

\* disconnect, lines 74-77
DisconnectTimes(ct, h) == IF h \in DOMAIN ct THEN DictDel(ct, h) ELSE ct

\* send_personal_message, lines 89-92: `except Exception` catches and logs whatever
\* send_json raises, so nothing reaches the caller
SendPersonalMessageRaises(h) == FALSE

\* registry state threaded through a delivery loop, with the loop's sent_count
\* and the frames delivered per handle
LoopState(ac, ct) ==
    [ac |-> ac, ct |-> ct, sent_count |-> 0, recv |-> NoRecv,
     disconnected |-> {}, raised |-> FALSE]

\* the body of `for connection in connections`, lines 113-119 and 142-147
DeliverOne(c, u, st) ==
    LET got == IF SendJsonRaises(c) THEN 0 ELSE 1
        after == IF SendPersonalMessageRaises(c)
                 THEN [st EXCEPT !.ac = DisconnectConnections(st.ac, c, u),
                                 !.ct = DisconnectTimes(st.ct, c),
                                 !.disconnected = @ \cup {<<c, u>>}]
                 ELSE [st EXCEPT !.sent_count = @ + 1]
    IN  [after EXCEPT !.recv[c] = @ + got]

\* as DeliverLoop, with a failing send raised to the caller of the loop
RECURSIVE DeliverLoop_AbortsOnFailure(_, _, _)
DeliverLoop_AbortsOnFailure(conns, u, st) ==
    IF conns = {} THEN st
    ELSE LET c == CHOOSE x \in conns : TRUE
         IN  IF SendJsonRaises(c) THEN [st EXCEPT !.raised = TRUE]
             ELSE DeliverLoop_AbortsOnFailure(conns \ {c}, u, DeliverOne(c, u, st))

RECURSIVE DeliverLoop(_, _, _)
DeliverLoop(conns, u, st) ==
    IF conns = {} THEN st
    ELSE LET c == CHOOSE x \in conns : TRUE
         IN  DeliverLoop(conns \ {c}, u, DeliverOne(c, u, st))

\* as send_to_user, without the membership test of lines 105-107: KeyError
send_to_user_NoGuard(ac, ct, u) ==
    IF u \notin DOMAIN ac
    THEN [LoopState(ac, ct) EXCEPT !.raised = TRUE]
    ELSE DeliverLoop(ac[u], u, LoopState(ac, ct))

\* as send_to_user, serving the handles of every user once u is connected
send_to_user_EveryHandle(ac, ct, u) ==
    IF u \notin DOMAIN ac
    THEN LoopState(ac, ct)
    ELSE DeliverLoop(UNION {ac[v] : v \in DOMAIN ac}, u, LoopState(ac, ct))

\* send_to_user, lines 105-122
send_to_user(ac, ct, u) ==
    IF u \notin DOMAIN ac
    THEN LoopState(ac, ct)
    ELSE DeliverLoop(ac[u], u, LoopState(ac, ct))

\* broadcast, line 138: `if exclude_user and user_id == exclude_user: continue`
Excluded(exclude_user, user_id) ==
    Truthy(exclude_user) /\ Some(user_id) = exclude_user

\* broadcast, lines 137-147: the items snapshot holds the live set objects, which
\* are copied when their turn comes; a set whose key was deleted is empty
RECURSIVE BroadcastLoop(_, _, _)
BroadcastLoop(items, exclude_user, st) ==
    IF items = {} THEN st
    ELSE LET u == CHOOSE x \in items : TRUE
             connections == IF u \in DOMAIN st.ac THEN st.ac[u] ELSE {}
         IN  BroadcastLoop(items \ {u}, exclude_user,
                           IF Excluded(exclude_user, u) THEN st
                           ELSE DeliverLoop(connections, u, st))

broadcast(ac, ct, exclude_user) ==
    BroadcastLoop(DOMAIN ac, exclude_user, LoopState(ac, ct))

\* ----------------------------------- a delivery loop, send by send
\* A send_to_user or broadcast call runs from one suspension to the next: it is
\* suspended only inside `await websocket.send_json`, after the frame was handed
\* to the transport, which sends the frames of one handle in the order of the
\* calls.
\*   op, arg     the call and its argument (user_id, or exclude_user)
\*   u           the user whose connections are being served
\*   rest        handles of the copy of u's set not yet served
\*   cur         the handle whose send is awaited; 0: none
\*   items       broadcast: users of list(items()) not yet reached
\*   stale       broadcast: users of items whose set object left the dict
\*   sent_count  the loop's counter
\*   copied      how many handles the loop has taken into its copies so far
\*   recv        frames delivered per handle by this call so far
IdleLoop ==
    [op |-> "idle", arg |-> None, u |-> 0, rest |-> {}, cur |-> 0, items |-> {},
     stale |-> {}, sent_count |-> 0, copied |-> 0, recv |-> NoRecv]

\* send_to_user, lines 105-110
SendToUserLoop(ac, u) ==
    LET connections == IF u \in DOMAIN ac THEN ac[u] ELSE {}
    IN  [IdleLoop EXCEPT !.op = "send_to_user", !.arg = Some(u), !.u = u,
                         !.rest = connections, !.copied = Cardinality(connections)]

\* broadcast, lines 135-137: list(self.active_connections.items())
BroadcastItems(ac, exclude_user) ==
    [IdleLoop EXCEPT !.op = "broadcast", !.arg = exclude_user, !.items = DOMAIN ac]

\* disconnect line 72 deletes the key of an emptied set: the set object a
\* broadcast's item list still refers to stays empty, whatever is connected
\* under that user id afterwards
MarkStale(lp, ac) == [lp EXCEPT !.stale = @ \cup {v \in lp.items : v \notin DOMAIN ac}]

\* as Remaining, iterating over the registry's own set: a handle that left it
\* meanwhile is not reached
Remaining_LiveSet(lp, ac) == lp.rest \cap (IF lp.u \in DOMAIN ac THEN ac[lp.u] ELSE {})

\* lines 109 and 141, `.copy()`: the loop iterates over its own copy of the set,
\* which no connect or disconnect changes
Remaining(lp, ac) == lp.rest

\* as Targets, leaving out the handles whose client has unsubscribed
Targets_Subscribed(lp, ac) ==
    {t \in (IF Remaining(lp, ac) # {} THEN {<<lp.u, c>> : c \in Remaining(lp, ac)}
            ELSE UNION {{<<v, c>> : c \in ac[v]} :
                          v \in {w \in lp.items : /\ ~Excluded(lp.arg, w)
                                                  /\ w \notin lp.stale
                                                  /\ w \in DOMAIN ac}}) :
        t[2] \notin unsubscribed}

\* the <<user, handle>> pairs the loop can serve next: the rest of the current
\* copy, else a handle of a user of the item list that is not skipped (line 138)
\* and whose set is not empty
Targets(lp, ac) ==
    IF Remaining(lp, ac) # {} THEN {<<lp.u, c>> : c \in Remaining(lp, ac)}
    ELSE UNION {{<<v, c>> : c \in ac[v]} :
                  v \in {w \in lp.items : /\ ~Excluded(lp.arg, w)
                                          /\ w \notin lp.stale
                                          /\ w \in DOMAIN ac}}

\* lines 112-114 / 137-143: the loop reaches handle t[2] of user t[1] and calls
\* send_personal_message; delivered: the frame goes out on it
CallSend(lp, ac, t, delivered) ==
    [lp EXCEPT !.u = t[1],
               !.cur = t[2],
               !.rest = (IF lp.rest # {} THEN lp.rest ELSE ac[t[1]]) \ {t[2]},
               !.copied = @ + (IF lp.rest # {} THEN 0 ELSE Cardinality(ac[t[1]])),
               !.items = @ \ {t[1]},
               !.recv[t[2]] = @ + (IF delivered THEN 1 ELSE 0)]

\* ------------------------------------------------- NotificationService
\* notify_user, lines 225-226: `return sent > 0`
notify_user_ret(sent) == RetBool(sent > 0)

\* as AppBlockedFrame, with the severity of notify_limit_warning
AppBlockedFrame_Warning(app_name) ==
    NotificationFrame("warning", "Application bloquee",
                      <<app_name, " est maintenant bloquee - limite atteinte">>,
                      {<<"app_name", app_name>>}, utcnow)

\* notify_app_blocked, lines 281-287
AppBlockedFrame(app_name) ==
    NotificationFrame("error", "Application bloquee",
                      <<app_name, " est maintenant bloquee - limite atteinte">>,
                      {<<"app_name", app_name>>}, utcnow)

\* ------------------------------------------------------------------ Init
Init ==
    /\ active_connections = EmptyDict
    /\ connection_times = EmptyDict
    /\ application_state = [h \in Handles |-> "CONNECTING"]
    /\ channel_up = [h \in Handles |-> TRUE]
    /\ pc = [h \in Handles |-> "start"]
    /\ user = [h \in Handles |-> None]
    /\ heartbeat = [h \in Handles |-> "none"]
    /\ token = [h \in Handles |-> None]
    /\ opened = {}
    /\ first_frame = [h \in Handles |-> "none"]
    /\ unsubscribed = {}
    /\ unresponsive = {}
    /\ loop = IdleLoop
    /\ last = Outcome("init", None, RetNone, FALSE, NoRecv, NoFrame)

SessionUnchanged == UNCHANGED <<pc, user, heartbeat, token>>

\* what every step outside a delivery loop leaves behind it: the first frame of
\* each handle, and the set objects of a running broadcast that left the dict
Recorded ==
    /\ first_frame' = FirstFrames(first_frame, last'.recv, last'.frame.type)
    /\ unsubscribed' = Acknowledged(unsubscribed, last'.recv, last'.frame.type)
    /\ loop' = MarkStale(loop, active_connections')

\* --------------------------------------------- registry API, called directly
\* await manager.connect(websocket, user_id)
Connect(h, u) ==
    /\ IF AcceptOk(h)
       THEN /\ application_state' = [application_state EXCEPT ![h] = "CONNECTED"]
            /\ active_connections' = RegisterConnection(active_connections, h, u)
            /\ connection_times' = DictSet(connection_times, h, utcnow)
            /\ opened' = opened \cup {<<h, u>>}
            /\ last' = Outcome("connect", None, RetNone, FALSE,
                               [NoRecv EXCEPT ![h] = 1], ConnectionFrame(utcnow))
       ELSE /\ UNCHANGED <<application_state, active_connections, connection_times,
                           opened>>
            /\ last' = Outcome("connect", None, RetNone, TRUE, NoRecv, NoFrame)
    /\ UNCHANGED channel_up
    /\ SessionUnchanged
    /\ UNCHANGED unresponsive
    /\ Recorded

\* manager.disconnect(websocket, user_id)
Disconnect(h, u) ==
    /\ active_connections' = DisconnectConnections(active_connections, h, u)
    /\ connection_times' = DisconnectTimes(connection_times, h)
    /\ opened' = opened \ {<<h, u>>}
    /\ last' = Outcome("disconnect", None, RetNone, FALSE, NoRecv, NoFrame)
    /\ UNCHANGED <<application_state, channel_up>>
    /\ SessionUnchanged
    /\ UNCHANGED unresponsive
    /\ Recorded

\* the client goes away: later sends on the handle raise
PeerDrop(h) ==
    /\ channel_up[h]
    /\ channel_up' = [channel_up EXCEPT ![h] = FALSE]
    /\ last' = Outcome("peer_drop", None, RetNone, FALSE, NoRecv, NoFrame)
    /\ UNCHANGED <<active_connections, connection_times, application_state, opened>>
    /\ SessionUnchanged
    /\ unresponsive' = unresponsive \ {h}
    /\ Recorded

\* manager.get_stats()
GetStats ==
    /\ last' = Outcome("get_stats", None, RetStats(get_stats(active_connections)),
                       FALSE, NoRecv, NoFrame)
    /\ UNCHANGED <<active_connections, connection_times, application_state, channel_up,
                   opened>>
    /\ SessionUnchanged
    /\ UNCHANGED unresponsive
    /\ Recorded

\* manager.get_connected_users()
GetConnectedUsers ==
    /\ last' = Outcome("get_connected_users", None,
                       RetSet(get_connected_users(active_connections)),
                       FALSE, NoRecv, NoFrame)
    /\ UNCHANGED <<active_connections, connection_times, application_state, channel_up,
                   opened>>
    /\ SessionUnchanged
    /\ UNCHANGED unresponsive
    /\ Recorded

\* manager.is_user_connected(user_id)
IsUserConnected(u) ==
    /\ last' = Outcome("is_user_connected", Some(u),
                       RetBool(is_user_connected(active_connections, u)),
                       FALSE, NoRecv, NoFrame)
    /\ UNCHANGED <<active_connections, connection_times, application_state, channel_up,
                   opened>>
    /\ SessionUnchanged
    /\ UNCHANGED unresponsive
    /\ Recorded

\* GET /ws/stats: get_websocket_stats, router lines 168-183
HttpStats ==
    /\ last' = Outcome("http_stats", None,
                       RetHttpStats(get_stats(active_connections),
                                    get_connected_users(active_connections)),
                       FALSE, NoRecv, NoFrame)
    /\ UNCHANGED <<active_connections, connection_times, application_state, channel_up,
                   opened>>
    /\ SessionUnchanged
    /\ UNCHANGED unresponsive
    /\ Recorded

\* the caller of get_connected_users() discards user id u from the set it was given
MutateReturned(u) ==
    /\ last.op = "get_connected_users"
    /\ u \in last.ret.s
    /\ last' = [last EXCEPT !.op = "mutate_returned", !.ret = RetSet(last.ret.s \ {u})]
    /\ IF GetConnectedUsersReturns = "registry"
       THEN active_connections' = DictDel(active_connections, u)
       ELSE UNCHANGED active_connections
    /\ UNCHANGED <<connection_times, application_state, channel_up, opened>>
    /\ SessionUnchanged
    /\ UNCHANGED unresponsive
    /\ Recorded

\* await manager.send_to_user(message, user_id)
SendToUser(u) ==
    LET r == send_to_user(active_connections, connection_times, u)
    IN  /\ active_connections' = r.ac
        /\ connection_times' = r.ct
        /\ opened' = opened \ r.disconnected
        /\ last' = Outcome("send_to_user", Some(u),
                           IF r.raised THEN RetNone ELSE RetInt(r.sent_count),
                           r.raised, r.recv, TestMessage)
        /\ UNCHANGED <<application_state, channel_up>>
        /\ SessionUnchanged
        /\ UNCHANGED unresponsive
        /\ Recorded

\* await manager.broadcast(message, exclude_user)
Broadcast(exclude_user) ==
    LET r == broadcast(active_connections, connection_times, exclude_user)
    IN  /\ active_connections' = r.ac
        /\ connection_times' = r.ct
        /\ opened' = opened \ r.disconnected
        /\ last' = Outcome("broadcast", exclude_user,
                           IF r.raised THEN RetNone ELSE RetInt(r.sent_count),
                           r.raised, r.recv, TestMessage)
        /\ UNCHANGED <<application_state, channel_up>>
        /\ SessionUnchanged
        /\ UNCHANGED unresponsive
        /\ Recorded

\* await NotificationService.notify_app_blocked(user_id, app_name)
NotifyAppBlocked(u, app_name) ==
    LET r == send_to_user(active_connections, connection_times, u)
    IN  /\ active_connections' = r.ac
        /\ connection_times' = r.ct
        /\ opened' = opened \ r.disconnected
        /\ last' = Outcome("notify_app_blocked", Some(u),
                           IF r.raised THEN RetNone ELSE notify_user_ret(r.sent_count),
                           r.raised, r.recv, AppBlockedFrame(app_name))
        /\ UNCHANGED <<application_state, channel_up>>
        /\ SessionUnchanged
        /\ UNCHANGED unresponsive
        /\ Recorded

\* the client of h stops reading: the connection stays up, and a send begun on h
\* from now on blocks
PeerStall(h) ==
    /\ application_state[h] = "CONNECTED"
    /\ channel_up[h]
    /\ h \notin unresponsive
    /\ loop.cur # h
    /\ unresponsive' = unresponsive \cup {h}
    /\ last' = Outcome("peer_stall", None, RetNone, FALSE, NoRecv, NoFrame)
    /\ UNCHANGED <<active_connections, connection_times, application_state, channel_up,
                   opened>>
    /\ SessionUnchanged
    /\ Recorded

\* the loop goes on from state lp over registry ac: it returns sent_count when
\* nothing is left to serve (lines 121-122, 149-150), else it calls the send on
\* a next handle and is suspended in it
Proceed(lp, ac) ==
    /\ IF Targets(lp, ac) = {}
       THEN /\ loop' = IdleLoop
            /\ last' = Outcome(lp.op, lp.arg, RetInt(lp.sent_count), FALSE, lp.recv,
                               TestMessage)
       ELSE \E t \in Targets(lp, ac) :
                LET delivered == ~SendJsonRaises(t[2]) /\ t[2] \notin unresponsive
                IN  /\ loop' = CallSend(lp, ac, t, delivered)
                    /\ last' = Outcome("send", lp.arg, RetNone, FALSE,
                                       [NoRecv EXCEPT ![t[2]] = IF delivered THEN 1 ELSE 0],
                                       TestMessage)
    /\ first_frame' = FirstFrames(first_frame, last'.recv, last'.frame.type)
    /\ UNCHANGED unsubscribed

\* await manager.send_to_user(message, user_id), up to its first suspension
BeginSendToUser(u) ==
    /\ loop.op = "idle"
    /\ Proceed(SendToUserLoop(active_connections, u), active_connections)
    /\ UNCHANGED <<active_connections, connection_times, application_state, channel_up,
                   opened, unresponsive>>
    /\ SessionUnchanged

\* await manager.broadcast(message, exclude_user), up to its first suspension
BeginBroadcast(exclude_user) ==
    /\ loop.op = "idle"
    /\ Proceed(BroadcastItems(active_connections, exclude_user), active_connections)
    /\ UNCHANGED <<active_connections, connection_times, application_state, channel_up,
                   opened, unresponsive>>
    /\ SessionUnchanged

\* the awaited send_personal_message returns (lines 114-119, 143-147) and the
\* loop runs to its next suspension or to its return; a send on a handle whose
\* client does not read never returns
ResumeLoop ==
    /\ loop.op # "idle"
    /\ loop.cur # 0
    /\ loop.cur \notin unresponsive
    /\ IF SendPersonalMessageRaises(loop.cur)
       THEN LET ac == DisconnectConnections(active_connections, loop.cur, loop.u)
            IN  /\ active_connections' = ac
                /\ connection_times' = DisconnectTimes(connection_times, loop.cur)
                /\ opened' = opened \ {<<loop.cur, loop.u>>}
                /\ Proceed(MarkStale([loop EXCEPT !.cur = 0], ac), ac)
       ELSE /\ Proceed([loop EXCEPT !.cur = 0, !.sent_count = @ + 1], active_connections)
            /\ UNCHANGED <<active_connections, connection_times, opened>>
    /\ UNCHANGED <<application_state, channel_up, unresponsive>>
    /\ SessionUnchanged

NextLoop ==
    \/ \E h \in LoopHandles, u \in Users : Connect(h, u)
    \/ \E h \in LoopHandles, u \in Users : Disconnect(h, u)
    \/ \E h \in LoopHandles : PeerDrop(h)
    \/ \E h \in LoopHandles : PeerStall(h)
    \/ \E u \in Users : BeginSendToUser(u)
    \/ \E x \in Option(Users) : BeginBroadcast(x)
    \/ ResumeLoop

SpecLoop == Init /\ [][NextLoop]_vars
\* the event loop resumes a coroutine whose awaited send has returned
SpecLoopFair == SpecLoop /\ WF_vars(ResumeLoop)

NextRegistry ==
    \/ \E h \in Handles, u \in Users : Connect(h, u)
    \/ \E h \in Handles, u \in Users : Disconnect(h, u)
    \/ \E h \in Handles : PeerDrop(h)
    \/ GetStats
    \/ GetConnectedUsers

SpecRegistry == Init /\ [][NextRegistry]_vars

NextDelivery ==
    \/ \E h \in Handles, u \in Users : Connect(h, u)
    \/ \E h \in Handles, u \in Users : Disconnect(h, u)
    \/ \E h \in Handles : PeerDrop(h)
    \/ \E u \in Users : SendToUser(u)
    \/ \E x \in Option(Users) : Broadcast(x)

SpecDelivery == Init /\ [][NextDelivery]_vars

NextIntrospect ==
    \/ \E h \in IntrospectHandles, u \in Users : Connect(h, u)
    \/ \E h \in IntrospectHandles, u \in Users : Disconnect(h, u)
    \/ \E h \in IntrospectHandles : PeerDrop(h)
    \/ GetStats
    \/ GetConnectedUsers
    \/ \E u \in Users : IsUserConnected(u)
    \/ HttpStats
    \/ \E u \in Users : MutateReturned(u)
    \/ \E u \in Users : SendToUser(u)
    \/ \E x \in Option(Users) : Broadcast(x)

SpecIntrospect == Init /\ [][NextIntrospect]_vars

\* notifications and plain messages addressed to one user
NextAddress ==
    \/ \E h \in IntrospectHandles, u \in Users : Connect(h, u)
    \/ \E h \in IntrospectHandles, u \in Users : Disconnect(h, u)
    \/ \E h \in IntrospectHandles : PeerDrop(h)
    \/ \E u \in Users : SendToUser(u)
    \/ \E u \in Users, app_name \in AppNames : NotifyAppBlocked(u, app_name)

SpecAddress == Init /\ [][NextAddress]_vars

NextNotify ==
    \/ \E h \in Handles, u \in Users : Connect(h, u)
    \/ \E h \in Handles, u \in Users : Disconnect(h, u)
    \/ \E h \in Handles : PeerDrop(h)
    \/ \E u \in Users, a \in AppNames : NotifyAppBlocked(u, a)

SpecNotify == Init /\ [][NextNotify]_vars

\* ------------------------------------------- authentication (router, 20-52)
\* rows of the users table: id, is_active
DbUsers == {[id |-> 7, is_active |-> TRUE], [id |-> 9, is_active |-> TRUE],
            [id |-> 3, is_active |-> FALSE]}
\* a bearer token: whether jwt.decode accepts it (signature, expiry), and its "sub"
Tokens == {[valid |-> FALSE, sub |-> None]}
          \cup {[valid |-> TRUE, sub |-> x] : x \in Option({0, 3, 5, 7, 9})}

\* as get_current_user_ws, without the is_active test
get_current_user_ws_NoActiveCheck(tok) ==
    IF ~tok.valid THEN [raised |-> TRUE, user |-> None]
    ELSE IF ~Truthy(tok.sub) THEN [raised |-> TRUE, user |-> None]
    ELSE IF {r \in DbUsers : r.id = tok.sub[1]} = {}
         THEN [raised |-> TRUE, user |-> None]
         ELSE [raised |-> FALSE, user |-> tok.sub]

\* get_current_user_ws: raises, or returns the User row (here its id)
get_current_user_ws(tok) ==
    IF ~tok.valid THEN [raised |-> TRUE, user |-> None]
    ELSE IF ~Truthy(tok.sub) THEN [raised |-> TRUE, user |-> None]
    ELSE LET rows == {r \in DbUsers : r.id = tok.sub[1]}
         IN  IF rows = {} \/ \E r \in rows : ~r.is_active
             THEN [raised |-> TRUE, user |-> None]
             ELSE [raised |-> FALSE, user |-> tok.sub]

\* ------------------------------------------------- inbound control frames
Malformed == [json |-> FALSE, action |-> None, timestamp |-> None, events |-> <<>>]
Msg(action, timestamp, events) ==
    [json |-> TRUE, action |-> action, timestamp |-> timestamp, events |-> events]
ClientMessages ==
    {Malformed,
     Msg(Some("ping"), None, <<>>),
     Msg(Some("ping"), Some(5), <<>>),
     Msg(Some("subscribe"), None, <<"limit_warning", "app_blocked">>),
     Msg(Some("unsubscribe"), None, <<"app_blocked">>),
     Msg(Some("get_stats"), None, <<>>),
     Msg(Some("dance"), None, <<>>),
     Msg(None, None, <<>>)}

\* as Reply, with a pong that carries no timestamp
Reply_PongNoEcho(data, ac) ==
    IF data.action = Some("ping") THEN PongFrame(None)
    ELSE IF data.action = Some("subscribe") THEN SubscribedFrame(data.events)
    ELSE IF data.action = Some("unsubscribe") THEN UnsubscribedFrame(data.events)
    ELSE IF data.action = Some("get_stats") THEN StatsFrame(get_stats(ac))
    ELSE UnknownActionFrame(data.action)

\* the receive loop's if/elif chain, router lines 98-142
Reply(data, ac) ==
    IF data.action = Some("ping") THEN PongFrame(data.timestamp)
    ELSE IF data.action = Some("subscribe") THEN SubscribedFrame(data.events)
    ELSE IF data.action = Some("unsubscribe") THEN UnsubscribedFrame(data.events)
    ELSE IF data.action = Some("get_stats") THEN StatsFrame(get_stats(ac))
    ELSE UnknownActionFrame(data.action)

\* asyncio Task.cancel(): a task that already finished stays as it is
TaskCancel(state) == IF state = "running" THEN "cancelled" ELSE state

\* --------------------------------------- websocket_endpoint (router, 79-165)
\* pc: "start"   before get_current_user_ws
\*     "accept"  in manager.connect, awaiting websocket.accept()
\*     "welcome" in manager.connect, awaiting the connection frame's send
\*     "open"    in the receive loop, awaiting websocket.receive_json()
\*     "closed"  the coroutine has ended; the server tears the connection down

\* the outer `except Exception` handler, lines 151-165; send_fails: its send_json raises
OuterExcept(h, usr, send_fails) ==
    /\ IF send_fails
       THEN /\ UNCHANGED application_state
            /\ last' = Outcome("endpoint_error", None, RetNone, FALSE, NoRecv, NoFrame)
       ELSE /\ application_state' = [application_state EXCEPT ![h] = "DISCONNECTED"]
            /\ last' = Outcome("endpoint_error", None, RetNone, FALSE,
                               [NoRecv EXCEPT ![h] = 1], ConnectionErrorFrame)
    /\ IF usr # None
       THEN /\ active_connections' = DisconnectConnections(active_connections, h, usr[1])
            /\ connection_times' = DisconnectTimes(connection_times, h)
            /\ opened' = opened \ {<<h, usr[1]>>}
       ELSE UNCHANGED <<active_connections, connection_times, opened>>
    /\ pc' = [pc EXCEPT ![h] = "closed"]
    /\ channel_up' = [channel_up EXCEPT ![h] = FALSE]

\* as InnerExcept, without heartbeat.cancel()
InnerExcept_NoCancel(h) ==
    /\ IF user[h] # None
       THEN /\ active_connections' = DisconnectConnections(active_connections, h, user[h][1])
            /\ connection_times' = DisconnectTimes(connection_times, h)
            /\ opened' = opened \ {<<h, user[h][1]>>}
       ELSE UNCHANGED <<active_connections, connection_times, opened>>
    /\ pc' = [pc EXCEPT ![h] = "closed"]
    /\ channel_up' = [channel_up EXCEPT ![h] = FALSE]
    /\ last' = Outcome("client_disconnect", None, RetNone, FALSE, NoRecv, NoFrame)
    /\ UNCHANGED <<application_state, user, token, heartbeat>>

\* the `except WebSocketDisconnect` handler, lines 144-149
InnerExcept(h) ==
    /\ heartbeat' = [heartbeat EXCEPT ![h] = TaskCancel(@)]
    /\ IF user[h] # None
       THEN /\ active_connections' = DisconnectConnections(active_connections, h, user[h][1])
            /\ connection_times' = DisconnectTimes(connection_times, h)
            /\ opened' = opened \ {<<h, user[h][1]>>}
       ELSE UNCHANGED <<active_connections, connection_times, opened>>
    /\ pc' = [pc EXCEPT ![h] = "closed"]
    /\ channel_up' = [channel_up EXCEPT ![h] = FALSE]
    /\ last' = Outcome("client_disconnect", None, RetNone, FALSE, NoRecv, NoFrame)
    /\ UNCHANGED <<application_state, user, token>>

\* line 83
Authenticate(h, tok) ==
    /\ pc[h] = "start"
    /\ token' = [token EXCEPT ![h] = Some(tok)]
    /\ LET r == get_current_user_ws(tok)
       IN  IF r.raised
           THEN /\ OuterExcept(h, user[h], SendJsonRaises(h))
                /\ UNCHANGED user
           ELSE /\ user' = [user EXCEPT ![h] = r.user]
                /\ pc' = [pc EXCEPT ![h] = "accept"]
                /\ last' = Outcome("authenticate", None, RetNone, FALSE, NoRecv, NoFrame)
                /\ UNCHANGED <<active_connections, connection_times,
                               application_state, channel_up, opened>>
    /\ UNCHANGED <<heartbeat, unresponsive>>
    /\ Recorded

\* as Accept, with the handle registered and no acknowledgement frame sent
Accept_RegistersOnly(h) ==
    /\ pc[h] = "accept"
    /\ IF AcceptOk(h)
       THEN /\ application_state' = [application_state EXCEPT ![h] = "CONNECTED"]
            /\ active_connections' = RegisterConnection(active_connections, h, user[h][1])
            /\ connection_times' = DictSet(connection_times, h, utcnow)
            /\ opened' = opened \cup {<<h, user[h][1]>>}
            /\ pc' = [pc EXCEPT ![h] = "welcome"]
            /\ last' = Outcome("accept", None, RetNone, FALSE, NoRecv, NoFrame)
            /\ UNCHANGED channel_up
       ELSE OuterExcept(h, user[h], SendJsonRaises(h))
    /\ UNCHANGED <<user, heartbeat, token, unresponsive>>
    /\ Recorded

\* line 86, manager.connect lines 37-50: accept() returns, the handle is registered
\* and the acknowledgement frame is handed to the transport
Accept(h) ==
    /\ pc[h] = "accept"
    /\ IF AcceptOk(h)
       THEN /\ application_state' = [application_state EXCEPT ![h] = "CONNECTED"]
            /\ active_connections' = RegisterConnection(active_connections, h, user[h][1])
            /\ connection_times' = DictSet(connection_times, h, utcnow)
            /\ opened' = opened \cup {<<h, user[h][1]>>}
            /\ pc' = [pc EXCEPT ![h] = "welcome"]
            /\ last' = Outcome("accept", None, RetNone, FALSE,
                               [NoRecv EXCEPT ![h] = 1], ConnectionFrame(utcnow))
            /\ UNCHANGED channel_up
       ELSE OuterExcept(h, user[h], SendJsonRaises(h))
    /\ UNCHANGED <<user, heartbeat, token, unresponsive>>
    /\ Recorded

\* manager.connect returns (line 57), then line 89 and the first receive_json
Welcome(h) ==
    /\ pc[h] = "welcome"
    /\ last' = Outcome("welcome", None, RetNone, FALSE, NoRecv, NoFrame)
    /\ heartbeat' = [heartbeat EXCEPT ![h] = "running"]
    /\ pc' = [pc EXCEPT ![h] = "open"]
    /\ UNCHANGED <<active_connections, connection_times, application_state,
                   channel_up, user, token, opened, unresponsive>>
    /\ Recorded

\* as Receive, with an action outside the four known ones treated as an error
\* of the session
Receive_UnknownFatal(h, data) ==
    /\ pc[h] = "open"
    /\ channel_up[h]
    /\ h \notin unresponsive
    /\ IF data.json /\ Reply(data, active_connections).type # "error"
       THEN /\ last' = Outcome("receive", None, RetNone, FALSE,
                               [NoRecv EXCEPT ![h] = 1], Reply(data, active_connections))
            /\ UNCHANGED <<active_connections, connection_times, application_state,
                           channel_up, pc, opened>>
       ELSE OuterExcept(h, user[h], SendJsonRaises(h))
    /\ UNCHANGED <<user, heartbeat, token, unresponsive>>
    /\ Recorded

\* lines 95-142: one inbound frame, answered; receive_json raises on input that
\* is not JSON, which the outer handler catches
Receive(h, data) ==
    /\ pc[h] = "open"
    /\ channel_up[h]
    /\ h \notin unresponsive
    /\ IF data.json
       THEN /\ last' = Outcome("receive", None, RetNone, FALSE,
                               [NoRecv EXCEPT ![h] = 1], Reply(data, active_connections))
            /\ UNCHANGED <<active_connections, connection_times, application_state,
                           channel_up, pc, opened>>
       ELSE OuterExcept(h, user[h], SendJsonRaises(h))
    /\ UNCHANGED <<user, heartbeat, token, unresponsive>>
    /\ Recorded

\* lines 102-142: the client leaves between its frame and the reply; the reply's
\* send_json raises WebSocketDisconnect or another exception, by transport version
ReplyFails(h, exc) ==
    /\ pc[h] = "open"
    /\ channel_up[h]
    /\ IF exc = "WebSocketDisconnect"
       THEN InnerExcept(h)
       ELSE /\ OuterExcept(h, user[h], TRUE)
            /\ UNCHANGED <<user, heartbeat, token>>
    /\ UNCHANGED unresponsive
    /\ Recorded

\* line 95 raises WebSocketDisconnect: the client has gone
RecvDisconnect(h) ==
    /\ pc[h] = "open"
    /\ ~channel_up[h]
    /\ InnerExcept(h)
    /\ UNCHANGED unresponsive
    /\ Recorded

\* the server cancels the endpoint's task while it awaits: CancelledError is no
\* Exception, so neither handler runs
TaskCancelled(h) ==
    /\ pc[h] \in {"accept", "welcome", "open"}
    /\ pc' = [pc EXCEPT ![h] = "closed"]
    /\ channel_up' = [channel_up EXCEPT ![h] = FALSE]
    /\ last' = Outcome("task_cancelled", None, RetNone, FALSE, NoRecv, NoFrame)
    /\ UNCHANGED <<active_connections, connection_times, application_state,
                   user, heartbeat, token, opened, unresponsive>>
    /\ Recorded

\* as HeartbeatStep, with a failed send deregistering the handle
HeartbeatStep_Deregisters(h) ==
    /\ heartbeat[h] = "running"
    /\ h \notin unresponsive
    /\ IF SendJsonRaises(h)
       THEN /\ heartbeat' = [heartbeat EXCEPT ![h] = "done"]
            /\ active_connections' =
                   DisconnectConnections(active_connections, h, user[h][1])
            /\ connection_times' = DisconnectTimes(connection_times, h)
            /\ opened' = opened \ {<<h, user[h][1]>>}
            /\ last' = Outcome("heartbeat", None, RetNone, FALSE, NoRecv, NoFrame)
       ELSE /\ UNCHANGED <<heartbeat, active_connections, connection_times, opened>>
            /\ last' = Outcome("heartbeat", None, RetNone, FALSE,
                               [NoRecv EXCEPT ![h] = 1], HeartbeatFrame(utcnow))
    /\ UNCHANGED <<application_state, channel_up, pc, user, token, unresponsive>>
    /\ Recorded

\* heartbeat_task, service lines 361-371: one round of sleep and send_json
HeartbeatStep(h) ==
    /\ heartbeat[h] = "running"
    /\ h \notin unresponsive
    /\ IF SendJsonRaises(h)
       THEN /\ heartbeat' = [heartbeat EXCEPT ![h] = "done"]
            /\ last' = Outcome("heartbeat", None, RetNone, FALSE, NoRecv, NoFrame)
       ELSE /\ UNCHANGED heartbeat
            /\ last' = Outcome("heartbeat", None, RetNone, FALSE,
                               [NoRecv EXCEPT ![h] = 1], HeartbeatFrame(utcnow))
    /\ UNCHANGED <<active_connections, connection_times, application_state,
                   channel_up, pc, user, token, opened, unresponsive>>
    /\ Recorded

NextSession ==
    \/ \E h \in Sessions, tok \in Tokens : Authenticate(h, tok)
    \/ \E h \in Sessions : Accept(h)
    \/ \E h \in Sessions : Welcome(h)
    \/ \E h \in Sessions, data \in ClientMessages : Receive(h, data)
    \/ \E h \in Sessions, exc \in {"WebSocketDisconnect", "Exception"} : ReplyFails(h, exc)
    \/ \E h \in Sessions : RecvDisconnect(h)
    \/ \E h \in Sessions : TaskCancelled(h)
    \/ \E h \in Sessions : HeartbeatStep(h)
    \/ \E h \in Sessions : PeerDrop(h)

SpecSession == Init /\ [][NextSession]_vars

\* the sessions, with deliveries going on beside them
NextPush ==
    \/ \E h \in PushSessions, tok \in Tokens : Authenticate(h, tok)
    \/ \E h \in PushSessions : Accept(h)
    \/ \E h \in PushSessions : Welcome(h)
    \/ \E h \in PushSessions, data \in ClientMessages : Receive(h, data)
    \/ \E h \in PushSessions, exc \in {"WebSocketDisconnect", "Exception"} :
          ReplyFails(h, exc)
    \/ \E h \in PushSessions : RecvDisconnect(h)
    \/ \E h \in PushSessions : TaskCancelled(h)
    \/ \E h \in PushSessions : HeartbeatStep(h)
    \/ \E h \in PushSessions : PeerDrop(h)
    \/ \E u \in Users : BeginSendToUser(u)
    \/ \E x \in Option(Users) : BeginBroadcast(x)
    \/ ResumeLoop

SpecPush == Init /\ [][NextPush]_vars

\* ======================================================================
\* Properties
\* ======================================================================
\* the handles registered under user id u
HandlesOf(u) == IF u \in DOMAIN active_connections THEN active_connections[u] ELSE {}
\* handle h is in some user's session set
Registered(h) == \E u \in DOMAIN active_connections : h \in active_connections[u]
\* every handle registered under u is live: a send on it succeeds
AllLive(u) == \A h \in HandlesOf(u) : ~SendJsonRaises(h)
\* the value of a returned int or bool as Python compares it with an int
PyInt(ret) == IF ret.kind = "bool" THEN (IF ret.b THEN 1 ELSE 0) ELSE ret.n

\* C1: after any sequence of connect and disconnect calls, get_connected_users()
\* is exactly the set of user ids with a handle connected and not yet
\* disconnected, and every key of active_connections has a non-empty handle set.
C1_ConnectedUsersExact ==
    /\ get_connected_users(active_connections) = {p[2] : p \in opened}
    /\ \A u \in DOMAIN active_connections : active_connections[u] # {}

\* two handles were connected, one was disconnected: user 7 is still present
C1_Witness ==
    /\ last.op = "disconnect"
    /\ application_state[1] = "CONNECTED" /\ ~Registered(1)
    /\ opened = {<<2, 7>>}
    /\ get_connected_users(active_connections) = {7}

\* C2 (as claimed): send_to_user returns the number of handles on which the send
\* succeeded, and no handle on which the send failed stays registered.
C2_SendToUserCountsDeliveries ==
    (last.op = "send_to_user" /\ ~last.raised) =>
        /\ last.ret.n = Cardinality({h \in Handles : last.recv[h] > 0})
        /\ \A h \in HandlesOf(last.arg[1]) : last.recv[h] > 0

\* C3 (as claimed): broadcast(message, exclude_user=U) delivers nothing on the
\* handles of U, for every integer U, and delivers on every live handle of the
\* other users.
C3_BroadcastExcludes ==
    (last.op = "broadcast" /\ last.arg # None) =>
        /\ \A h \in HandlesOf(last.arg[1]) : last.recv[h] = 0
        /\ \A v \in DOMAIN active_connections \ {last.arg[1]} :
             \A h \in active_connections[v] : ~SendJsonRaises(h) => last.recv[h] = 1

\* the token fails authentication: rejected by jwt.decode, no subject, or no
\* active user with that id
TokenFails(tok) ==
    \/ ~tok.valid
    \/ tok.sub = None
    \/ ~\E r \in DbUsers : r.id = tok.sub[1] /\ r.is_active

\* C4: a session whose token fails authentication is never in a user's session
\* set nor in connection_times, neither before its token is examined nor after.
C4_NoEntryWithoutAuth ==
    \A h \in Sessions :
        (token[h] = None \/ TokenFails(token[h][1])) =>
            ~Registered(h) /\ h \notin DOMAIN connection_times

\* a session was refused for an inactive user while another one is registered
C4_Witness ==
    \E h \in Sessions :
        /\ token[h] = Some([valid |-> TRUE, sub |-> Some(3)])
        /\ pc[h] = "closed"
        /\ last.op = "endpoint_error"
        /\ active_connections # EmptyDict

\* C5 (as claimed): no session is closed with its heartbeat task still running.
C5_HeartbeatCancelledOnExit ==
    \A h \in Sessions : pc[h] = "closed" => heartbeat[h] # "running"

\* C6: the step in which a session handles its client's disconnect cancels the
\* heartbeat task, and a heartbeat frame is delivered only while the task runs
\* and the session is open (none after the cancellation or the disconnect).
C6_HeartbeatStopsAtDisconnect ==
    /\ [][\A h \in Sessions : RecvDisconnect(h) => heartbeat'[h] # "running"]_vars
    /\ [](\A h \in Sessions :
            (last.op = "heartbeat" /\ last.recv[h] > 0) =>
                heartbeat[h] = "running" /\ pc[h] = "open")

\* a session ended by its client's disconnect, heartbeat cancelled
C6_Witness ==
    \E h \in Sessions :
        /\ last.op = "client_disconnect"
        /\ pc[h] = "closed"
        /\ heartbeat[h] = "cancelled"

\* C7: disconnect of a handle that is not registered raises nothing and leaves
\* active_connections and connection_times as they were; and a second identical
\* disconnect changes nothing after the first.
C7_DisconnectAbsentIsNoOp ==
    /\ [][\A h \in Handles, u \in Users :
            (Disconnect(h, u) /\ ~Registered(h)) =>
                /\ UNCHANGED <<active_connections, connection_times>>
                /\ ~last'.raised]_vars
    /\ [](\A h \in Handles, u \in Users :
            LET ac1 == DisconnectConnections(active_connections, h, u)
                ct1 == DisconnectTimes(connection_times, h)
            IN  /\ DisconnectConnections(ac1, h, u) = ac1
                /\ DisconnectTimes(ct1, h) = ct1)

\* disconnect was just called on handle 1, which was never connected, while
\* handles 2 and 3 are registered: nothing of theirs was touched
C7_Witness ==
    /\ last.op = "disconnect" /\ ~last.raised
    /\ application_state[1] = "CONNECTING" /\ ~Registered(1)
    /\ HandlesOf(9) = {2, 3}
    /\ DOMAIN connection_times = {2, 3}

\* C8: send_to_user to a user id without registered handle returns 0, raises
\* nothing, delivers no frame and leaves the registry as it was.
C8_SendToAbsentUser ==
    [][\A u \in Users :
         (SendToUser(u) /\ u \notin DOMAIN active_connections) =>
             /\ last'.ret = RetInt(0)
             /\ ~last'.raised
             /\ last'.recv = NoRecv
             /\ UNCHANGED <<active_connections, connection_times>>]_vars

\* send_to_user(7) returned 0 while only user 9 is connected
C8_Witness ==
    /\ last.op = "send_to_user" /\ last.arg = Some(7)
    /\ last.ret = RetInt(0)
    /\ DOMAIN active_connections = {9}

\* C9: get_stats() gives the number of user ids with a connected, not yet
\* disconnected handle as total_users, and the number of such handles as
\* total_connections.
C9_StatsCount ==
    LET st == get_stats(active_connections)
    IN  /\ st.total_users = Cardinality({p[2] : p \in opened})
        /\ st.total_connections = Cardinality(opened)
        /\ last.op = "get_stats" =>
               /\ last.ret.total_users = st.total_users
               /\ last.ret.total_connections = st.total_connections

\* connect(A,7), connect(B,7), connect(C,9): get_stats() returned {2, 3}
C9_Witness ==
    /\ last.op = "get_stats"
    /\ opened = {<<1, 7>>, <<2, 7>>, <<3, 9>>}
    /\ last.ret.total_users = 2
    /\ last.ret.total_connections = 3

\* C10 (as claimed): notify_app_blocked to a user connected through k live
\* handles returns k, and each handle gets one notification frame of error
\* severity carrying the app name.
C10_NotifyReturnsCount ==
    (last.op = "notify_app_blocked" /\ HandlesOf(last.arg[1]) # {}
       /\ AllLive(last.arg[1])) =>
        /\ PyInt(last.ret) = Cardinality(HandlesOf(last.arg[1]))
        /\ \A h \in HandlesOf(last.arg[1]) : last.recv[h] = 1
        /\ last.frame.type = "notification"
        /\ last.frame.notification_type = "error"
        /\ \E a \in AppNames : last.frame.data = {<<"app_name", a>>}

\* C10 (amended): notify_app_blocked to a user connected through k >= 1 live
\* handles returns True, and each of the k handles gets exactly one frame, of type
\* notification, notification_type error, data.app_name the supplied name.
C10_NotifyReturnsTrue ==
    [][\A u \in Users, a \in AppNames :
         (NotifyAppBlocked(u, a) /\ HandlesOf(u) # {} /\ AllLive(u)) =>
             /\ last'.ret = RetBool(TRUE)
             /\ ~last'.raised
             /\ \A h \in Handles : last'.recv[h] = IF h \in HandlesOf(u) THEN 1 ELSE 0
             /\ last'.frame.type = "notification"
             /\ last'.frame.notification_type = "error"
             /\ last'.frame.data = {<<"app_name", a>>}]_vars

\* user 7, connected through A and B, was notified that "game" is blocked
C10_Witness ==
    /\ last.op = "notify_app_blocked" /\ last.arg = Some(7)
    /\ HandlesOf(7) = {1, 2} /\ AllLive(7)
    /\ last.ret = RetBool(TRUE)
    /\ last.recv[1] = 1 /\ last.recv[2] = 1
    /\ last.frame.data = {<<"app_name", "game">>}

\* C11: connect calls of different sessions that overlap (for the same user id or
\* for different ones) lose no update: every session whose connect has done its
\* bookkeeping, and has not ended, has its handle in the session set of its own
\* user, in no other user's set, and has a timestamp record.
C11_ConcurrentConnectsBothRegistered ==
    \A h \in Sessions :
        pc[h] \in {"welcome", "open"} =>
            /\ user[h] # None
            /\ h \in HandlesOf(user[h][1])
            /\ h \in DOMAIN connection_times
            /\ \A u \in DOMAIN active_connections \ {user[h][1]} :
                   h \notin active_connections[u]

\* two connect calls for user 7 are in flight together, both suspended at the send
\* of their acknowledgement frame, and both handles are in the set of user 7
C11_Witness ==
    /\ pc[1] = "welcome" /\ pc[2] = "welcome"
    /\ user[1] = Some(7) /\ user[2] = Some(7)
    /\ HandlesOf(7) = {1, 2}
    /\ DOMAIN connection_times = {1, 2}

\* C13: a failing handle makes neither send_to_user nor broadcast raise, and the
\* loop still attempts every handle of its snapshot: each live handle of the
\* targeted users gets the frame, whatever the other handles do.
C13_FailureDoesNotPropagate ==
    [][/\ last'.op = "send_to_user" =>
            /\ ~last'.raised
            /\ last'.ret.n = Cardinality(HandlesOf(last'.arg[1]))
            /\ \A h \in HandlesOf(last'.arg[1]) :
                   ~SendJsonRaises(h) => last'.recv[h] = 1
       /\ last'.op = "broadcast" =>
            /\ ~last'.raised
            /\ \A v \in DOMAIN active_connections :
                   ~Excluded(last'.arg, v) =>
                       \A h \in active_connections[v] :
                           ~SendJsonRaises(h) => last'.recv[h] = 1]_vars

\* send_to_user(7) with handles 1 and 2 registered, the client of 1 gone: nothing
\* was raised and handle 2 got the frame
C13_Witness ==
    /\ last.op = "send_to_user" /\ last.arg = Some(7)
    /\ HandlesOf(7) = {1, 2}
    /\ SendJsonRaises(1) /\ ~SendJsonRaises(2)
    /\ ~last.raised
    /\ last.recv[1] = 0 /\ last.recv[2] = 1

\* C14 (as claimed): when authentication fails, an error frame is delivered on the
\* channel, which is then closed.
C14_AuthErrorFrameBeforeClose ==
    [][\A h \in Sessions, tok \in Tokens :
         (Authenticate(h, tok) /\ TokenFails(tok)) =>
             /\ last'.recv[h] = 1
             /\ last'.frame.type = "error"
             /\ application_state'[h] = "DISCONNECTED"]_vars

\* the actions the receive loop knows
KnownActions == {Some("ping"), Some("subscribe"), Some("unsubscribe"), Some("get_stats")}

\* C15: an inbound frame whose action is unknown or missing is answered by
\* exactly one frame, of type error, on its own handle; the session stays open,
\* the registry is untouched and the heartbeat task keeps running.
C15_UnknownActionNonFatal ==
    [][\A h \in Sessions, data \in ClientMessages :
         (Receive(h, data) /\ data.json /\ data.action \notin KnownActions) =>
             /\ last'.recv = [NoRecv EXCEPT ![h] = 1]
             /\ last'.frame.type = "error"
             /\ pc'[h] = "open"
             /\ Registered(h)'
             /\ heartbeat'[h] = "running"
             /\ UNCHANGED <<active_connections, connection_times>>]_vars

\* session 1 answered the action "dance" with the error frame and is still open
C15_Witness ==
    /\ last.op = "receive"
    /\ last.frame = UnknownActionFrame(Some("dance"))
    /\ last.recv[1] = 1
    /\ pc[1] = "open" /\ Registered(1) /\ heartbeat[1] = "running"

\* C16 (as claimed): a single-recipient dispatcher method raises nothing and
\* returns true exactly when at least one handle of the user received the frame.
C16_NotifyTrueIffDelivered ==
    last.op = "notify_app_blocked" =>
        /\ ~last.raised
        /\ last.ret.b <=> \E h \in Handles : last.recv[h] > 0

\* C18: an open session answers each inbound control frame with exactly one
\* frame on its own handle: pong with the client's timestamp for ping,
\* subscribed / unsubscribed with the requested events, stats with the registry's
\* current get_stats() for get_stats, error for anything else.
C18_ReplyMatchesAction ==
    [][\A h \in Sessions, data \in ClientMessages :
         (Receive(h, data) /\ data.json) =>
             /\ last'.recv = [NoRecv EXCEPT ![h] = 1]
             /\ data.action = Some("ping") =>
                    last'.frame.type = "pong" /\ last'.frame.timestamp = data.timestamp
             /\ data.action = Some("subscribe") =>
                    last'.frame.type = "subscribed" /\ last'.frame.events = data.events
             /\ data.action = Some("unsubscribe") =>
                    last'.frame.type = "unsubscribed" /\ last'.frame.events = data.events
             /\ data.action = Some("get_stats") =>
                    /\ last'.frame.type = "stats"
                    /\ last'.frame.data = get_stats(active_connections')
             /\ data.action \notin KnownActions => last'.frame.type = "error"]_vars

\* a ping with timestamp 5 was answered by a pong with timestamp 5
C18_Witness ==
    /\ last.op = "receive"
    /\ last.frame = PongFrame(Some(5))
    /\ \E h \in Sessions : last.recv[h] = 1 /\ pc[h] = "open"

\* C19 (as claimed): the reply to get_stats has a top-level key active_users or
\* a top-level key connections.
C19_StatsReplyTopLevelKeys ==
    (last.op = "receive" /\ last.frame.type = "stats") =>
        \/ "active_users" \in DOMAIN last.frame
        \/ "connections" \in DOMAIN last.frame

\* C20: only connect and disconnect change the registry. is_user_connected,
\* get_connected_users, get_stats, GET /ws/stats and the send_to_user / broadcast
\* runs whose sends all succeed leave active_connections and connection_times as
\* they were; so does a modification of the set get_connected_users returned;
\* and a step that changes either dict is a connect, a disconnect, or a delivery
\* in which a send failed.
C20_OnlyConnectDisconnectMutate ==
    [][/\ (\/ last'.op \in {"get_stats", "get_connected_users", "http_stats",
                           "is_user_connected", "mutate_returned"}
           \/ last'.op = "send_to_user" /\ AllLive(last'.arg[1])
           \/ last'.op = "broadcast" /\ \A v \in DOMAIN active_connections : AllLive(v))
          => UNCHANGED <<active_connections, connection_times>>
       /\ <<active_connections, connection_times>>' # <<active_connections, connection_times>>
          => \/ last'.op \in {"connect", "disconnect"}
             \/ /\ last'.op \in {"send_to_user", "broadcast"}
                /\ \E h \in Handles : Registered(h) /\ SendJsonRaises(h)]_vars

\* the caller removed user 7 from the set get_connected_users() gave it; the
\* registry still holds users 7 and 9
C20_Witness ==
    /\ last.op = "mutate_returned"
    /\ last.ret.s = {9}
    /\ DOMAIN active_connections = {7, 9}
    /\ DOMAIN connection_times = {1, 2}

\* C12 (as claimed): a delivery loop suspended in the send on a handle whose
\* client does not read gets past that handle after a bounded delay, the handle
\* then being treated as failed and removed from the registry.
C12_DeliveryLoopTerminates ==
    \A h \in Handles :
        (loop.cur = h /\ h \in unresponsive) ~> (loop.cur # h /\ ~Registered(h))

\* C17: the first frame sent on the handle of a session is the acknowledgement
\* frame of type connection: an open session has had it, and no handle has had
\* another frame first, with send_to_user and broadcast calls for its user
\* running beside its connect.
C17_FirstFrameIsConnection ==
    \A h \in Sessions :
        /\ pc[h] = "open" => first_frame[h] = "connection"
        /\ first_frame[h] \in {"none", "connection"}

\* a send_to_user(7) is suspended in its send on handle 1, where it delivered its
\* frame, while the connect of session 1 (user 7) has not returned: the first
\* frame of handle 1 was the acknowledgement
C17_Witness ==
    /\ pc[1] = "welcome" /\ user[1] = Some(7)
    /\ loop.op = "send_to_user" /\ loop.u = 7 /\ loop.cur = 1
    /\ loop.recv[1] = 1
    /\ first_frame[1] = "connection"

\* C21 (as claimed): a session that reached the receive loop and has ended, for
\* whatever cause (client disconnect, malformed input, transport error,
\* cancellation of its task), has its handle in no session set and no
\* connection timestamp.
C21_ExitedSessionDeregistered ==
    \A h \in Sessions :
        (pc[h] = "closed" /\ heartbeat[h] # "none") =>
            ~Registered(h) /\ h \notin DOMAIN connection_times

\* C22 (as claimed): the token of a session is validated only on a channel whose
\* handshake has been accepted.
C22_AuthenticatesAfterAccept ==
    [][\A h \in Sessions :
         (token[h] = None /\ token'[h] # None) =>
             application_state[h] = "CONNECTED"]_vars

\* C23 (as claimed): broadcast returns the number of handles on which the send
\* succeeded, and no handle of a user that is not excluded stays registered
\* after a send on it failed.
C23_BroadcastCountsDeliveries ==
    (last.op = "broadcast" /\ ~last.raised) =>
        /\ last.ret.n = Cardinality({h \in Handles : last.recv[h] > 0})
        /\ \A v \in DOMAIN active_connections :
             ~Excluded(last.arg, v) =>
                 \A h \in active_connections[v] : last.recv[h] > 0

\* C24: whatever connect and disconnect calls run while a send_to_user or a
\* broadcast is suspended in a send, the loop raises nothing and returns only
\* after a send call on every handle it took into its copies; and every user id
\* in the registry has a non-empty handle set.
C24_LoopUnaffectedByInterleaving ==
    /\ [][loop'.op = "idle" /\ loop.op # "idle" =>
            /\ ~last'.raised
            /\ last'.op = loop.op
            /\ last'.ret.n = loop.copied]_vars
    /\ [](\A u \in DOMAIN active_connections : active_connections[u] # {})

\* send_to_user(7) returned 2 although one of the two handles it had copied was
\* disconnected while the loop was suspended
C24_Witness ==
    /\ last.op = "send_to_user" /\ last.arg = Some(7)
    /\ last.ret.n = 2
    /\ Cardinality(HandlesOf(7)) = 1
    /\ \A h \in LoopHandles : last.recv[h] = 1

\* C25: no step of a heartbeat task changes active_connections or
\* connection_times; the step in which its send fails ends the task with no
\* frame sent and the handle as registered as before, and a task that has ended
\* sends no frame.
C25_HeartbeatLeavesRegistry ==
    /\ [][last'.op = "heartbeat" =>
            /\ active_connections' = active_connections
            /\ connection_times' = connection_times
            /\ \A h \in Sessions :
                 (heartbeat[h] = "running" /\ heartbeat'[h] = "done") =>
                     /\ last'.recv = NoRecv
                     /\ last'.frame = NoFrame]_vars
    /\ [](\A h \in Sessions :
            (last.op = "heartbeat" /\ heartbeat[h] = "done") => last.recv[h] = 0)

\* the heartbeat of an open session ended on a failed send, and the handle is
\* still registered: the receive loop has not yet seen the closed channel
C25_Witness ==
    \E h \in Sessions :
        /\ last.op = "heartbeat"
        /\ heartbeat[h] = "done"
        /\ pc[h] = "open" /\ ~channel_up[h]
        /\ Registered(h) /\ h \in DOMAIN connection_times

\* C26: answering a ping, subscribe, unsubscribe or get_stats frame changes
\* neither active_connections nor connection_times; and whatever a handle's
\* client has subscribed to or unsubscribed from, send_to_user and broadcast
\* return at once only when no handle is registered for them to serve, send the
\* frame on the handle they call the send on when it is live, and return after
\* a send call on every handle they copied.
C26_SubscriptionHasNoEffect ==
    /\ [][last'.op = "receive" =>
            /\ active_connections' = active_connections
            /\ connection_times' = connection_times]_vars
    /\ [][loop.op = "idle" =>
            /\ last'.op = "send_to_user" => HandlesOf(last'.arg[1]) = {}
            /\ last'.op = "broadcast" =>
                 \A v \in DOMAIN active_connections : Excluded(last'.arg, v)
            /\ last'.op = "send" =>
                 (~SendJsonRaises(loop'.cur) /\ loop'.cur \notin unresponsive
                    => last'.recv[loop'.cur] = 1)]_vars
    /\ [][loop.op # "idle" /\ loop'.op = "idle" => last'.ret.n = loop.copied]_vars

\* a frame was delivered to a handle whose client had unsubscribed
C26_Witness ==
    \E h \in PushSessions :
        /\ h \in unsubscribed
        /\ last.op = "send" /\ last.recv[h] = 1
        /\ loop.cur = h

\* C27: a frame of send_to_user(message, u) or of a notification for u goes out
\* only on handles that are in u's session set and in no other user's.
C27_FramesOnlyToAddressee ==
    last.op \in {"send_to_user", "notify_app_blocked"} =>
        \A h \in Handles :
            last.recv[h] > 0 =>
                /\ h \in HandlesOf(last.arg[1])
                /\ \A v \in DOMAIN active_connections \ {last.arg[1]} :
                     h \notin active_connections[v]

\* users 7 and 9 are both connected and live; a notification for 7 went out on
\* 7's handle and not on 9's
C27_Witness ==
    /\ last.op = "notify_app_blocked" /\ last.arg = Some(7)
    /\ \E h \in HandlesOf(7) : last.recv[h] = 1
    /\ \E h \in HandlesOf(9) : ~SendJsonRaises(h) /\ last.recv[h] = 0

\* C28 (as claimed): a send_to_user or broadcast loop sends a frame only on a
\* handle that is registered at the time of the send: none on a handle whose
\* disconnect has completed, also when the handle was copied before.
C28_NoFrameAfterDisconnect ==
    \A h \in Handles :
        (last.op = "send" /\ last.recv[h] > 0) => Registered(h)

\* C29 (as claimed): after any sequence of connect, disconnect, send_to_user and
\* broadcast calls, the handles with a connection timestamp are exactly the
\* handles in the users' session sets.
C29_TimestampsMatchRegistry ==
    DOMAIN connection_times =
        UNION {active_connections[u] : u \in DOMAIN active_connections}

====
